---- MODULE Spec2Model ----
(***************************************************************************)
(* Conway's Game of Life (game_of_life package and the batch driver).      *)
(*                                                                         *)
(* A grid is a Python list of row lists.  It is modelled as a sequence of  *)
(* row addresses into `heap`, so that aliasing between grids, in-place     *)
(* mutation and fresh allocation are all visible to the properties.        *)
(* Row and column indices are 0-based as in the source; the sequences of   *)
(* the model are 1-based, hence the +1 at every subscript.                 *)
(***************************************************************************)
EXTENDS Integers, Sequences, FiniteSets, TLC

VARIABLES
    RULES_REGISTRY,   \* rules._RULES_REGISTRY: rule name -> rule function
    last_registered,  \* history: rule name -> function of the latest register_rule
    heap,             \* row address -> list of cells
    grid,             \* the caller's grid handed to evolve_grid (row addresses)
    board,            \* the Board object (rows, cols, grid) or NoBoard
    pc,               \* control point of the scenario
    args,             \* arguments of the call in progress / last call
    ret,              \* outcome of the last call: value and raised exception
    pre,              \* history: cell values of the grid on entry of the last call
    gen,              \* run_simulation: loop variable
    out,              \* run_simulation: snapshots written so far
    evolve_calls      \* history: evolve_grid calls made by run_simulation

vars == <<RULES_REGISTRY, last_registered, heap, grid, board, pc, args, ret,
          pre, gen, out, evolve_calls>>

\* ------------------------------------------------------------------ bounds
MaxCells == 9
MaxRows == 3
MaxCols == 3
MaxLines == 3
MaxGen == 3

\* the safety ceiling of run_simulation
MAX_GENERATIONS == 10000

None == "None"
NoBoard == [rows |-> 0, cols |-> 0, grid |-> <<>>, constructed |-> FALSE]

\* ------------------------------------------------------- errors.py
\* class -> base class
Bases ==
    [GameOfLifeError |-> "Exception",
     GridSizeError |-> "GameOfLifeError",
     PatternParseError |-> "GameOfLifeError",
     SimulationOverflowError |-> "GameOfLifeError",
     ValueError |-> "Exception",
     Exception |-> "BaseException"]

RECURSIVE issubclass(_, _)
issubclass(cls, base) ==
    IF cls = base THEN TRUE
    ELSE IF cls \in DOMAIN Bases THEN issubclass(Bases[cls], base)
    ELSE FALSE

\* ------------------------------------------------------- rules.py
RuleDomain == (0..1) \X (0..8)

\* survival on exactly 3 neighbours only: "1 if live_neighbors == 3 else 0"
conway_rule_survive_3 ==
    [a \in RuleDomain |-> IF a[2] = 3 THEN 1 ELSE 0]

\* B3/S23
conway_rule ==
    [a \in RuleDomain |->
        IF a[1] = 1
        THEN (IF a[2] \in {2, 3} THEN 1 ELSE 0)
        ELSE (IF a[2] = 3 THEN 1 ELSE 0)]

\* a rule supplied by user code through @register_rule (B36/S23)
highlife_rule ==
    [a \in RuleDomain |->
        IF a[1] = 1
        THEN (IF a[2] \in {2, 3} THEN 1 ELSE 0)
        ELSE (IF a[2] \in {3, 6} THEN 1 ELSE 0)]

RuleFuncs == {conway_rule, highlife_rule}
RuleNames == {"conway", "highlife"}

EmptyRegistry == [n \in {} |-> conway_rule]

\* _RULES_REGISTRY[name] = func keeps every other entry
register_rule_setdefault(reg, name, func) ==
    [n \in DOMAIN reg \cup {name} |-> IF n \in DOMAIN reg THEN reg[n] ELSE func]

register_rule(reg, name, func) ==
    [n \in DOMAIN reg \cup {name} |-> IF n = name THEN func ELSE reg[n]]

\* the registry once the module is imported: @register_rule("conway")
StartupRegistry == register_rule(EmptyRegistry, "conway", conway_rule)

\* the lookup raising an error of the domain family
get_rule_domain_error(reg, name) ==
    IF name \in DOMAIN reg
    THEN [value |-> reg[name], exc |-> None, registry |-> reg]
    ELSE [value |-> None, exc |-> "GameOfLifeError", registry |-> reg]

\* value, raised exception, and the registry as the call leaves it
get_rule(reg, name) ==
    IF name \in DOMAIN reg
    THEN [value |-> reg[name], exc |-> None, registry |-> reg]
    ELSE [value |-> None, exc |-> "ValueError", registry |-> reg]

\* ------------------------------------------------------- heap of row lists
RECURSIVE FreshFrom(_, _, _)
\* the n smallest addresses not in use, searching upwards from a
FreshFrom(used, n, a) ==
    IF n = 0 THEN <<>>
    ELSE IF a \in used THEN FreshFrom(used, n, a + 1)
    ELSE <<a>> \o FreshFrom(used, n - 1, a + 1)

Range(s) == {s[i] : i \in DOMAIN s}

\* [[0 for _ in range(cols)] for _ in range(rows)]: one new list per row
ZeroGrid(h, rows, cols) ==
    LET addrs == FreshFrom(DOMAIN h, rows, 1)
        zeros == [j \in 1..cols |-> 0] \o <<>>
    IN  [heap |-> h @@ [a \in Range(addrs) |-> zeros],
         grid |-> addrs]

\* g[r][c] = v
SetCell(h, g, r, c, v) ==
    (g[r + 1] :> [h[g[r + 1]] EXCEPT ![c + 1] = v]) @@ h

\* the cell values of a grid
Cells(h, g) == [i \in 1..Len(g) |-> h[g[i]]]

\* rows no longer referenced are reclaimed
Collect(h, live) == [a \in DOMAIN h \cap live |-> h[a]]

RECURSIVE ClearLoop(_, _, _, _, _)
\* for r in range(rows): for c in range(cols): g[r][c] = 0, k = r * cols + c
ClearLoop(h, g, rows, cols, k) ==
    IF k >= rows * cols THEN h
    ELSE ClearLoop(SetCell(h, g, k \div cols, k % cols, 0), g, rows, cols, k + 1)

Offsets == <<-1, 0, 1>>

RECURSIVE NeighborLoop(_, _, _, _, _, _, _)
\* the double loop over (dr, dc), k = 3 * (index of dr) + (index of dc)
NeighborLoop(h, g, r, c, rows, cols, k) ==
    IF k = 9 THEN 0
    ELSE LET dr == Offsets[(k \div 3) + 1]
             dc == Offsets[(k % 3) + 1]
             nr == r + dr
             nc == c + dc
             rest == NeighborLoop(h, g, r, c, rows, cols, k + 1)
         IN  IF dr = 0 /\ dc = 0 THEN rest
             ELSE IF 0 <= nr /\ nr < rows /\ 0 <= nc /\ nc < cols
                  THEN h[g[nr + 1]][nc + 1] + rest
                  ELSE rest

\* the loop without its "continue": the cell counts itself
count_live_neighbors_self(h, g, r, c) ==
    LET rows == Len(g)
        cols == IF rows > 0 THEN Len(h[g[1]]) ELSE 0
    IN  NeighborLoop(h, g, r, c, rows, cols, 0) + h[g[r + 1]][c + 1]

count_live_neighbors(h, g, r, c) ==
    LET rows == Len(g)
        cols == IF rows > 0 THEN Len(h[g[1]]) ELSE 0
    IN  NeighborLoop(h, g, r, c, rows, cols, 0)

RECURSIVE EvolveLoop(_, _, _, _, _, _, _)
\* for r in range(rows): for c in range(cols): ..., k = r * cols + c
EvolveLoop(h, g, new_grid, rule, rows, cols, k) ==
    IF k >= rows * cols THEN h
    ELSE LET r == k \div cols
             c == k % cols
             neighbors == count_live_neighbors(h, g, r, c)
         IN  EvolveLoop(SetCell(h, new_grid, r, c, rule[<<h[g[r + 1]][c + 1], neighbors>>]),
                        g, new_grid, rule, rows, cols, k + 1)

\* new_grid = grid: the next generation written over the current one
evolve_grid_in_place(h, g, rule_name, reg) ==
    LET got == get_rule(reg, rule_name)
        rows == Len(g)
        cols == IF rows > 0 THEN Len(h[g[1]]) ELSE 0
    IN  IF got.exc # None
        THEN [heap |-> h, value |-> None, exc |-> got.exc, registry |-> got.registry]
        ELSE [heap |-> EvolveLoop(h, g, g, got.value, rows, cols, 0),
              value |-> g, exc |-> None, registry |-> got.registry]

evolve_grid(h, g, rule_name, reg) ==
    LET got == get_rule(reg, rule_name)
        rows == Len(g)
        cols == IF rows > 0 THEN Len(h[g[1]]) ELSE 0
        new == ZeroGrid(h, rows, cols)
    IN  IF got.exc # None
        THEN [heap |-> h, value |-> None, exc |-> got.exc, registry |-> got.registry]
        ELSE [heap |-> EvolveLoop(new.heap, g, new.grid, got.value, rows, cols, 0),
              value |-> new.grid, exc |-> None, registry |-> got.registry]

\* ------------------------------------------------------- patterns.py
\* A line of text is a sequence of one-character strings.
Whitespace == {" ", "\t", "\n", "\r"}
Digits == <<"0", "1", "2", "3", "4", "5", "6", "7", "8", "9">>
IsDigit(ch) == \E d \in 1..10 : Digits[d] = ch
DigitValue(ch) == (CHOOSE d \in 1..10 : Digits[d] = ch) - 1

RECURSIVE SkipSpace(_, _)
\* \s* from position i: the first position that holds no whitespace
SkipSpace(s, i) ==
    IF i <= Len(s) /\ s[i] \in Whitespace THEN SkipSpace(s, i + 1) ELSE i

RECURSIVE SkipDigits(_, _)
\* \d* from position i
SkipDigits(s, i) ==
    IF i <= Len(s) /\ IsDigit(s[i]) THEN SkipDigits(s, i + 1) ELSE i

RECURSIVE LastNonSpace(_, _)
LastNonSpace(s, j) ==
    IF j >= 1 /\ s[j] \in Whitespace THEN LastNonSpace(s, j - 1) ELSE j

\* str.strip()
strip(s) == SubSeq(s, SkipSpace(s, 1), LastNonSpace(s, Len(s)))

RECURSIVE int(_)
\* int() of a string of decimal digits
int(s) ==
    IF Len(s) = 0 THEN 0
    ELSE 10 * int(SubSeq(s, 1, Len(s) - 1)) + DigitValue(s[Len(s)])

At(s, i) == IF i >= 1 /\ i <= Len(s) THEN s[i] ELSE "EOL"

NoMatch == [matched |-> FALSE, row |-> 0, col |-> 0, symbol |-> None]

\* ^\s*\(\s*(\d+)\s*,\s*(\d+)\s*\)\s+([*.])\s*$ ; the character classes of
\* consecutive parts are disjoint, so the match is found without backtracking
COORD_LINE_RE(s) ==
    LET open == SkipSpace(s, 1)
        r1 == SkipSpace(s, open + 1)
        r2 == SkipDigits(s, r1)
        comma == SkipSpace(s, r2)
        c1 == SkipSpace(s, comma + 1)
        c2 == SkipDigits(s, c1)
        close == SkipSpace(s, c2)
        sym == SkipSpace(s, close + 1)
        end == SkipSpace(s, sym + 1)
    IN  IF /\ At(s, open) = "("
           /\ r2 > r1
           /\ At(s, comma) = ","
           /\ c2 > c1
           /\ At(s, close) = ")"
           /\ sym > close + 1
           /\ At(s, sym) \in {"*", "."}
           /\ end = Len(s) + 1
        THEN [matched |-> TRUE,
              row |-> int(SubSeq(s, r1, r2 - 1)),
              col |-> int(SubSeq(s, c1, c2 - 1)),
              symbol |-> s[sym]]
        ELSE NoMatch

max(a, b) == IF a >= b THEN a ELSE b

RECURSIVE ParseLoop(_, _, _, _, _)
\* for line_no, line in enumerate(f, start=1)
ParseLoop(lines, line_no, live_cells, max_row, max_col) ==
    IF line_no > Len(lines)
    THEN [exc |-> None, line_no |-> 0,
          rows |-> max_row + 1, cols |-> max_col + 1, live_cells |-> live_cells]
    ELSE LET line == strip(lines[line_no])
             m == COORD_LINE_RE(line)
         IN  IF Len(line) = 0 \/ line[1] = "#"
             THEN ParseLoop(lines, line_no + 1, live_cells, max_row, max_col)
             ELSE IF ~m.matched
             THEN [exc |-> "PatternParseError", line_no |-> line_no,
                   rows |-> 0, cols |-> 0, live_cells |-> <<>>]
             ELSE IF m.symbol = "*"
             THEN ParseLoop(lines, line_no + 1, Append(live_cells, <<m.row, m.col>>),
                            max(max_row, m.row), max(max_col, m.col))
             ELSE ParseLoop(lines, line_no + 1, live_cells, max_row, max_col)

RECURSIVE ParseLoopAnySymbol(_, _, _, _, _)
\* the loop with max_row and max_col updated outside "if symbol == '*'"
ParseLoopAnySymbol(lines, line_no, live_cells, max_row, max_col) ==
    IF line_no > Len(lines)
    THEN [exc |-> None, line_no |-> 0,
          rows |-> max_row + 1, cols |-> max_col + 1, live_cells |-> live_cells]
    ELSE LET line == strip(lines[line_no])
             m == COORD_LINE_RE(line)
         IN  IF Len(line) = 0 \/ line[1] = "#"
             THEN ParseLoopAnySymbol(lines, line_no + 1, live_cells, max_row, max_col)
             ELSE IF ~m.matched
             THEN [exc |-> "PatternParseError", line_no |-> line_no,
                   rows |-> 0, cols |-> 0, live_cells |-> <<>>]
             ELSE ParseLoopAnySymbol(lines, line_no + 1,
                        IF m.symbol = "*" THEN Append(live_cells, <<m.row, m.col>>)
                                          ELSE live_cells,
                        max(max_row, m.row), max(max_col, m.col))

parse_pattern_file_any_symbol(path) ==
    IF ~path.exists
    THEN [exc |-> "PatternParseError", line_no |-> 0,
          rows |-> 0, cols |-> 0, live_cells |-> <<>>]
    ELSE ParseLoopAnySymbol(path.lines, 1, <<>>, 0, 0)

\* a path names a file: [exists, lines]
parse_pattern_file(path) ==
    IF ~path.exists
    THEN [exc |-> "PatternParseError", line_no |-> 0,
          rows |-> 0, cols |-> 0, live_cells |-> <<>>]
    ELSE ParseLoop(path.lines, 1, <<>>, 0, 0)

\* ------------------------------------------------------- board.py
\* "rows < 0 or cols < 0": a zero dimension accepted
Board_init_strict_less(h, rows, cols) ==
    IF rows < 0 \/ cols < 0
    THEN [heap |-> h, board |-> NoBoard, exc |-> "GridSizeError"]
    ELSE LET new == ZeroGrid(h, rows, cols)
         IN  [heap |-> new.heap,
              board |-> [rows |-> rows, cols |-> cols, grid |-> new.grid,
                         constructed |-> TRUE],
              exc |-> None]

\* the grid built as cols lists of rows cells
Board_init_transposed(h, rows, cols) ==
    IF rows <= 0 \/ cols <= 0
    THEN [heap |-> h, board |-> NoBoard, exc |-> "GridSizeError"]
    ELSE LET new == ZeroGrid(h, cols, rows)
         IN  [heap |-> new.heap,
              board |-> [rows |-> rows, cols |-> cols, grid |-> new.grid,
                         constructed |-> TRUE],
              exc |-> None]

\* Board.__init__
Board_init(h, rows, cols) ==
    IF rows <= 0 \/ cols <= 0
    THEN [heap |-> h, board |-> NoBoard, exc |-> "GridSizeError"]
    ELSE LET new == ZeroGrid(h, rows, cols)
         IN  [heap |-> new.heap,
              board |-> [rows |-> rows, cols |-> cols, grid |-> new.grid,
                         constructed |-> TRUE],
              exc |-> None]

\* Board.clear
clear(h, b) == ClearLoop(h, b.grid, b.rows, b.cols, 0)

RECURSIVE LoadLoop(_, _, _, _)
\* for r, c in live_cells: self.grid[r][c] = 1 ; a subscript outside a list
\* raises IndexError and leaves the cells written so far
LoadLoop(h, g, live_cells, k) ==
    IF k > Len(live_cells) THEN [heap |-> h, exc |-> None]
    ELSE LET r == live_cells[k][1]
             c == live_cells[k][2]
         IN  IF r >= Len(g) \/ c >= Len(h[g[r + 1]])
             THEN [heap |-> h, exc |-> "IndexError"]
             ELSE LoadLoop(SetCell(h, g, r, c, 1), g, live_cells, k + 1)

\* self.clear() moved in front of the size check
load_pattern_clear_first(h, b, path) ==
    LET parsed == parse_pattern_file(path)
    IN  IF parsed.exc # None
        THEN [heap |-> h, exc |-> parsed.exc]
        ELSE IF parsed.rows > b.rows \/ parsed.cols > b.cols
        THEN [heap |-> clear(h, b), exc |-> "GridSizeError"]
        ELSE LoadLoop(clear(h, b), b.grid, parsed.live_cells, 1)

\* self.clear() left out
load_pattern_no_clear(h, b, path) ==
    LET parsed == parse_pattern_file(path)
    IN  IF parsed.exc # None
        THEN [heap |-> h, exc |-> parsed.exc]
        ELSE IF parsed.rows > b.rows \/ parsed.cols > b.cols
        THEN [heap |-> h, exc |-> "GridSizeError"]
        ELSE LoadLoop(h, b.grid, parsed.live_cells, 1)

\* Board.load_pattern
load_pattern(h, b, path) ==
    LET parsed == parse_pattern_file(path)
    IN  IF parsed.exc # None
        THEN [heap |-> h, exc |-> parsed.exc]
        ELSE IF parsed.rows > b.rows \/ parsed.cols > b.cols
        THEN [heap |-> h, exc |-> "GridSizeError"]
        ELSE LoadLoop(clear(h, b), b.grid, parsed.live_cells, 1)

\* Board.save_snapshot: the text written, one line of '*' and '.' per row
save_snapshot(h, b) ==
    [i \in 1..Len(b.grid) |->
        [j \in 1..Len(h[b.grid[i]]) |->
            IF h[b.grid[i]][j] = 1 THEN "*" ELSE "."]]

\* ------------------------------------------------------- common initial values
NoRet == [value |-> None, exc |-> None, origin |-> None]
NoArgs == [op |-> None]
NoOut == [count |-> 0, last_gen |-> -1, last |-> <<>>, prev |-> <<>>]
EmptyHeap == [a \in {} |-> <<>>]

\* Lines of pattern files, each with what it denotes: a blank line, a comment,
\* a live or dead cell at (row, col), or a line outside the format.
LinePool == <<
    [kind |-> "blank", row |-> 0, col |-> 0,
     text |-> <<"\n">>],
    [kind |-> "blank", row |-> 0, col |-> 0,
     text |-> <<" ", " ", "\t", "\n">>],
    [kind |-> "comment", row |-> 0, col |-> 0,
     text |-> <<"#", " ", "g", "l", "i", "d", "e", "r", "\n">>],
    [kind |-> "comment", row |-> 0, col |-> 0,
     text |-> <<" ", " ", "#", "(", "0", ",", "0", ")", " ", "*", "\n">>],
    [kind |-> "live", row |-> 0, col |-> 0,
     text |-> <<"(", "0", ",", "0", ")", " ", "*", "\n">>],
    [kind |-> "live", row |-> 0, col |-> 1,
     text |-> <<"(", "0", ",", "1", ")", " ", "*", "\n">>],
    [kind |-> "live", row |-> 1, col |-> 2,
     text |-> <<"(", "1", ",", "2", ")", " ", "*", "\n">>],
    [kind |-> "live", row |-> 2, col |-> 1,
     text |-> <<" ", " ", "(", " ", "2", " ", ",", " ", "1", " ", ")", "\t", " ", "*", " ", " ", "\n">>],
    [kind |-> "live", row |-> 1, col |-> 1,
     text |-> <<"(", "0", "1", ",", "1", ")", " ", "*">>],
    [kind |-> "live", row |-> 12, col |-> 0,
     text |-> <<"(", "1", "2", ",", "0", ")", " ", "*", "\n">>],
    [kind |-> "dead", row |-> 0, col |-> 1,
     text |-> <<"(", "0", ",", "1", ")", " ", ".", "\n">>],
    [kind |-> "dead", row |-> 5, col |-> 7,
     text |-> <<"(", "5", ",", "7", ")", " ", ".", "\n">>],
    [kind |-> "bad", row |-> 0, col |-> 0,
     text |-> <<"g", "a", "r", "b", "a", "g", "e", "\n">>],
    [kind |-> "bad", row |-> 1, col |-> 2,
     text |-> <<"(", "1", ",", "2", ")", "*", "\n">>],
    [kind |-> "bad", row |-> 1, col |-> 2,
     text |-> <<"(", "1", ",", "2", ")", " ", "*", " ", " ", "#", " ", "l", "i", "v", "e", "\n">>]>>

\* a file holding the pool lines idx[1], idx[2], ...
FileOf(idx) == [exists |-> TRUE, lines |-> [i \in 1..Len(idx) |-> LinePool[idx[i]].text]]
MissingFile == [exists |-> FALSE, lines |-> <<>>]

IndexSeqs(n) == UNION {[1..k -> 1..Len(LinePool)] : k \in 0..n}

\* ======================================================================
\* Spec: the process.  Rules are registered and looked up, then
\* run_simulation runs under main's "except GameOfLifeError" handler.
\* ======================================================================
LookupNames == RuleNames \cup {"seeds"}

\* pattern files of the runs, as indexes into LinePool
RunFileIndexes ==
    {<<>>, <<6, 9, 8>>, <<5, 7, 8, 9>>, <<5, 6, 5, 11, 5>>, <<6, 9, 7, 4>>,
     <<10>>, <<5, 14>>}

RunPaths == {FileOf(idx) : idx \in RunFileIndexes} \cup {MissingFile}

\* short runs over every kind of input
ShortRuns ==
    [pattern_file : RunPaths, rows : {-1, 0} \cup 2..MaxRows, cols : 0..MaxCols,
     generations : -1..MaxGen, rule_name : LookupNames]

\* runs at the generation ceiling of the program as shipped
CeilingRuns ==
    [pattern_file : {FileOf(<<6, 9, 8>>), MissingFile}, rows : {0, 3, MaxRows},
     cols : {3, MaxCols}, generations : {0, MAX_GENERATIONS, MAX_GENERATIONS + 1},
     rule_name : {"conway", "seeds"}]

Init ==
    /\ RULES_REGISTRY = StartupRegistry
    /\ last_registered = StartupRegistry
    /\ heap = EmptyHeap
    /\ grid = <<>>
    /\ board = NoBoard
    /\ pc = "setup"
    /\ args = NoArgs
    /\ ret = NoRet
    /\ pre = <<>>
    /\ gen = 0
    /\ out = NoOut
    /\ evolve_calls = 0

\* @register_rule(name) applied to func
RegisterRule ==
    /\ pc = "setup"
    /\ \E name \in RuleNames, func \in RuleFuncs :
         /\ RULES_REGISTRY' = register_rule(RULES_REGISTRY, name, func)
         /\ last_registered' = (name :> func) @@ last_registered
         /\ args' = [op |-> "register_rule", name |-> name, func |-> func]
    /\ ret' = NoRet
    /\ UNCHANGED <<heap, grid, board, pc, pre, gen, out, evolve_calls>>

\* get_rule(name)
GetRule ==
    /\ pc = "setup"
    /\ \E name \in LookupNames :
         \E res \in {get_rule(RULES_REGISTRY, name)} :
            /\ RULES_REGISTRY' = res.registry
            /\ ret' = [value |-> res.value, exc |-> res.exc]
            /\ args' = [op |-> "get_rule", name |-> name]
    /\ UNCHANGED <<last_registered, heap, grid, board, pc, pre, gen, out, evolve_calls>>

\* "generations >= 10_000"
ExceedsCeilingInclusive(generations) == generations >= MAX_GENERATIONS

\* if generations > 10_000
ExceedsCeiling(generations) == generations > MAX_GENERATIONS

Raised(exc, origin) == [value |-> None, exc |-> exc, origin |-> origin]

\* run_simulation up to the loop: the ceiling check, Board(rows, cols),
\* board.load_pattern(pattern_file); range(generations + 1) is empty when
\* generations < 0
RunStart(runs) ==
    /\ pc = "setup"
    /\ \E a \in runs :
         /\ args' = [op |-> "run_simulation", pattern_file |-> a.pattern_file,
                     rows |-> a.rows, cols |-> a.cols,
                     generations |-> a.generations, rule_name |-> a.rule_name]
         /\ IF ExceedsCeiling(a.generations)
            THEN /\ ret' = Raised("SimulationOverflowError", "run_simulation")
                 /\ pc' = "raised"
                 /\ UNCHANGED <<heap, board, pre>>
            ELSE \E made \in {Board_init(heap, a.rows, a.cols)} :
                 IF made.exc # None
                 THEN /\ ret' = Raised(made.exc, "Board")
                      /\ pc' = "raised"
                      /\ UNCHANGED <<heap, board, pre>>
                 ELSE \E loaded \in {load_pattern(made.heap, made.board, a.pattern_file)} :
                      /\ heap' = loaded.heap
                      /\ board' = made.board
                      /\ pre' = Cells(loaded.heap, made.board.grid)
                      /\ IF loaded.exc # None
                         THEN /\ ret' = Raised(loaded.exc, "load_pattern")
                              /\ pc' = "raised"
                         ELSE /\ ret' = NoRet
                              /\ pc' = IF a.generations + 1 > 0 THEN "loop" ELSE "done"
    /\ gen' = 0
    /\ UNCHANGED <<RULES_REGISTRY, last_registered, grid, out, evolve_calls>>

\* "if gen <= generations"
ShouldEvolveAlways(g, generations) == g <= generations

\* if gen < generations
ShouldEvolve(g, generations) == g < generations

\* one iteration of "for gen in range(generations + 1)": the snapshot of the
\* board is written, then the board's grid is replaced by the next generation
LoopStep ==
    /\ pc = "loop"
    /\ out' = [count |-> out.count + 1, last_gen |-> gen,
               last |-> save_snapshot(heap, board), prev |-> out.last]
    /\ IF ShouldEvolve(gen, args.generations)
       THEN \E res \in {evolve_grid(heap, board.grid, args.rule_name, RULES_REGISTRY)} :
              /\ evolve_calls' = evolve_calls + 1
              /\ RULES_REGISTRY' = res.registry
              /\ IF res.exc # None
                 THEN /\ ret' = Raised(res.exc, "evolve_grid")
                      /\ pc' = "raised"
                      /\ UNCHANGED <<heap, board, gen>>
                 ELSE /\ board' = [board EXCEPT !.grid = res.value]
                      /\ heap' = Collect(res.heap, Range(res.value))
                      /\ gen' = gen + 1
                      /\ pc' = IF gen + 1 < args.generations + 1 THEN "loop" ELSE "done"
                      /\ UNCHANGED ret
       ELSE /\ gen' = gen + 1
            /\ pc' = IF gen + 1 < args.generations + 1 THEN "loop" ELSE "done"
            /\ UNCHANGED <<RULES_REGISTRY, heap, board, ret, evolve_calls>>
    /\ UNCHANGED <<last_registered, grid, args, pre>>

\* try: run_simulation(...) except GameOfLifeError as e: print(...)
MainHandler ==
    /\ pc = "raised"
    /\ pc' = IF issubclass(ret.exc, "GameOfLifeError") THEN "reported" ELSE "crashed"
    /\ UNCHANGED <<RULES_REGISTRY, last_registered, heap, grid, board, args, ret,
                   pre, gen, out, evolve_calls>>

Next == RegisterRule \/ GetRule \/ RunStart(ShortRuns) \/ LoopStep \/ MainHandler

Spec == Init /\ [][Next]_vars

\* ======================================================================
\* SpecCeiling: the program as shipped (no rule registered by user code) run
\* with generation counts at the safety ceiling.
\* ======================================================================
NextCeiling == RunStart(CeilingRuns) \/ LoopStep \/ MainHandler

SpecCeiling == Init /\ [][NextCeiling]_vars

\* ---------------------------------------------------------------- C2
\* the grid a board of the run's size holds once the pattern is loaded
LoadedGrid(a) ==
    LET live == Range(parse_pattern_file(a.pattern_file).live_cells)
    IN  [i \in 1..a.rows |-> [j \in 1..a.cols |->
            IF <<i - 1, j - 1>> \in live THEN 1 ELSE 0]]

\* evolve_grid applied to a grid given by its cells
NextGeneration(m, rule_name, reg) ==
    LET res == evolve_grid([a \in 1..Len(m) |-> m[a]], [a \in 1..Len(m) |-> a],
                           rule_name, reg)
    IN  Cells(res.heap, res.value)

RECURSIVE Generation(_, _, _, _)
\* m evolved exactly k times
Generation(k, m, rule_name, reg) ==
    IF k = 0 THEN m
    ELSE NextGeneration(Generation(k - 1, m, rule_name, reg), rule_name, reg)

Render(m) == [i \in 1..Len(m) |-> [j \in 1..Len(m[i]) |-> IF m[i][j] = 1 THEN "*" ELSE "."]]

\* C2: a run with 0 <= generations <= 10000, a fitting pattern and a
\* registered rule writes exactly generations + 1 snapshots, numbered 0, 1, ...
\* in order; snapshot k shows the loaded pattern evolved exactly k times under
\* the requested rule; evolve_grid is called generations times, never after
\* the final snapshot.
C2_SnapshotSequence ==
    (/\ args.op = "run_simulation"
     /\ pc \in {"loop", "done"}
     /\ 0 <= args.generations /\ args.generations <= 10000
     /\ args.rule_name \in DOMAIN RULES_REGISTRY) =>
        /\ (pc = "loop") =>
              /\ gen <= args.generations
              /\ out.count = gen
              /\ evolve_calls = gen
        /\ (pc = "done") =>
              /\ out.count = args.generations + 1
              /\ evolve_calls = args.generations
        /\ (out.count > 0) =>
              /\ out.last_gen = out.count - 1
              /\ out.last = Render(Generation(out.last_gen, LoadedGrid(args),
                                              args.rule_name, RULES_REGISTRY))
        /\ (out.count > 1) =>
              out.prev = Render(Generation(out.last_gen - 1, LoadedGrid(args),
                                           args.rule_name, RULES_REGISTRY))
        /\ ret.exc = None

\* the blinker, 3 generations: four snapshots, the last one the horizontal bar
C2_Witness ==
    /\ args.op = "run_simulation" /\ pc = "done"
    /\ args.generations = 3 /\ args.rule_name = "highlife"
    /\ out.count = 4 /\ out.last_gen = 3 /\ evolve_calls = 3
    /\ out.prev = <<<<".", "*", ".">>, <<".", "*", ".">>, <<".", "*", ".">>>>
    /\ out.last = <<<<".", ".", ".">>, <<"*", "*", "*">>, <<".", ".", ".">>>>

\* ---------------------------------------------------------------- C3
\* C3: run_simulation raises SimulationOverflowError exactly when
\* generations > 10000, and then no Board exists, no pattern is loaded, no
\* snapshot is written and evolve_grid is never called.
C3_OverflowCeiling ==
    (args.op = "run_simulation") =>
        /\ (ret.exc = "SimulationOverflowError") <=> (args.generations > 10000)
        /\ (ret.exc = "SimulationOverflowError") =>
              /\ ret.origin = "run_simulation"
              /\ ~board.constructed
              /\ heap = EmptyHeap
              /\ pre = <<>>
              /\ out = NoOut
              /\ evolve_calls = 0
              /\ pc \in {"raised", "reported"}

C3_Witness ==
    /\ args.op = "run_simulation"
    /\ args.generations = 10001
    /\ args.rows = 0
    /\ ret.exc = "SimulationOverflowError"
    /\ pc = "reported"

\* ---------------------------------------------------------------- C11
VerticalBlinker == <<<<0, 1, 0>>, <<0, 1, 0>>, <<0, 1, 0>>>>
HorizontalBlinker == <<<<0, 0, 0>>, <<1, 1, 1>>, <<0, 0, 0>>>>

BlinkerAt(k) == IF k % 2 = 0 THEN VerticalBlinker ELSE HorizontalBlinker

\* C11: under "conway" the 3x3 vertical blinker evolves to the horizontal bar
\* and back: in a run started from it the grid after an even number of
\* generations is the vertical blinker and after an odd number the horizontal
\* bar, every snapshot shows the same, and the centre cell is always alive.
C11_BlinkerPeriodTwo ==
    (/\ args.op = "run_simulation"
     /\ pc \in {"loop", "done"}
     /\ pre = VerticalBlinker
     /\ args.rule_name = "conway") =>
        /\ Cells(heap, board.grid) = BlinkerAt(evolve_calls)
        /\ heap[board.grid[2]][2] = 1
        /\ (out.count > 0) =>
              /\ out.last = Render(BlinkerAt(out.last_gen))
              /\ out.last[2][2] = "*"
        /\ (out.count > 1) => out.prev = Render(BlinkerAt(out.last_gen - 1))

\* two generations made: snapshot 1 showed the bar, the board is vertical again
C11_Witness ==
    /\ args.op = "run_simulation" /\ args.rule_name = "conway"
    /\ pre = VerticalBlinker
    /\ evolve_calls = 2
    /\ out.last_gen = 1
    /\ out.prev = Render(VerticalBlinker)
    /\ out.last = Render(HorizontalBlinker)
    /\ Cells(heap, board.grid) = VerticalBlinker

\* ---------------------------------------------------------------- C7
\* C7 as stated: the error of an unregistered rule name is a member of the
\* domain error family, so main's handler catches it.
C7_UnknownRuleIsDomainError ==
    (args.op = "run_simulation" /\ ret.origin = "evolve_grid") =>
        /\ issubclass(ret.exc, "GameOfLifeError")
        /\ pc # "crashed"

\* C7 (amended): evolving with an unregistered rule name raises the built-in
\* ValueError, which is outside the GameOfLifeError family of GridSizeError,
\* PatternParseError and SimulationOverflowError; it leaves evolve_grid and
\* run_simulation unchanged and main's "except GameOfLifeError" does not
\* catch it.
C7_UnknownRuleValueError ==
    (args.op = "run_simulation") =>
        /\ (evolve_calls > 0 /\ args.rule_name \notin DOMAIN RULES_REGISTRY) =>
              /\ ret.origin = "evolve_grid"
              /\ evolve_calls = 1
        /\ (ret.origin = "evolve_grid") =>
              /\ args.rule_name \notin DOMAIN RULES_REGISTRY
              /\ ret.exc = "ValueError"
              /\ ~issubclass(ret.exc, "GameOfLifeError")
              /\ pc \in {"raised", "crashed"}
              /\ Cells(heap, board.grid) = pre
        /\ \A e \in {"GridSizeError", "PatternParseError", "SimulationOverflowError"} :
              issubclass(e, "GameOfLifeError")
        /\ (ret.exc # None /\ ret.origin # "evolve_grid") =>
              /\ issubclass(ret.exc, "GameOfLifeError")
              /\ pc \in {"raised", "reported"}

C7_Witness ==
    /\ args.op = "run_simulation"
    /\ args.rule_name = "seeds"
    /\ ret.origin = "evolve_grid" /\ ret.exc = "ValueError"
    /\ out.count = 1
    /\ pc = "crashed"

\* ---------------------------------------------------------------- C8
RegistryState ==
    /\ "conway" \in DOMAIN RULES_REGISTRY
    /\ RULES_REGISTRY = last_registered
    /\ (args.op = "get_rule") =>
          IF args.name \in DOMAIN last_registered
          THEN ret.exc = None /\ ret.value = last_registered[args.name]
          ELSE ret.exc # None /\ ret.value = None

RegistryStep ==
    /\ DOMAIN RULES_REGISTRY \subseteq DOMAIN RULES_REGISTRY'
    /\ (RULES_REGISTRY' # RULES_REGISTRY) =>
          /\ args'.op = "register_rule"
          /\ RULES_REGISTRY'[args'.name] = args'.func
          /\ \A n \in DOMAIN RULES_REGISTRY \ {args'.name} :
                RULES_REGISTRY'[n] = RULES_REGISTRY[n]
    /\ (args'.op = "register_rule" /\ args' # args) =>
          RULES_REGISTRY'[args'.name] = args'.func

\* C8: the registry always holds "conway" and never loses a name; a lookup
\* returns the function most recently registered under the name (a
\* re-registration, also of "conway", replaces the earlier one); only
\* register_rule changes the registry, a lookup never does.
C8_RegistryGrowsAndReplaces == []RegistryState /\ [][RegistryStep]_vars

\* "conway" overridden by user code and looked up
C8_Witness ==
    /\ args.op = "get_rule" /\ args.name = "conway"
    /\ ret.value = highlife_rule
    /\ "highlife" \in DOMAIN RULES_REGISTRY

\* ======================================================================
\* SpecParse: parse_pattern_file called on every file of at most MaxLines
\* lines of the pool, and on a missing file.
\* ======================================================================
InitParse ==
    /\ \/ \E idx \in IndexSeqs(MaxLines) :
            args = [op |-> "parse_pattern_file", path |-> FileOf(idx), idx |-> idx]
       \/ args = [op |-> "parse_pattern_file", path |-> MissingFile, idx |-> <<>>]
    /\ RULES_REGISTRY = StartupRegistry
    /\ last_registered = StartupRegistry
    /\ heap = EmptyHeap
    /\ grid = <<>>
    /\ board = NoBoard
    /\ pc = "call"
    /\ ret = NoRet
    /\ pre = <<>>
    /\ gen = 0
    /\ out = NoOut
    /\ evolve_calls = 0

ParseCall ==
    /\ pc = "call"
    /\ ret' = parse_pattern_file(args.path)
    /\ pc' = "returned"
    /\ UNCHANGED <<RULES_REGISTRY, last_registered, heap, grid, board, args, pre,
                   gen, out, evolve_calls>>

NextParse == ParseCall

SpecParse == InitParse /\ [][NextParse]_vars

\* ---------------------------------------------------------------- C10
RECURSIVE LiveCoordinates(_)
\* the coordinates denoted by the live-cell lines, in file order
LiveCoordinates(idx) ==
    IF Len(idx) = 0 THEN <<>>
    ELSE LET l == LinePool[idx[Len(idx)]]
             before == LiveCoordinates(SubSeq(idx, 1, Len(idx) - 1))
         IN  IF l.kind = "live" THEN Append(before, <<l.row, l.col>>) ELSE before

Greatest(S) == CHOOSE x \in S : \A y \in S : y <= x

WellFormed(idx) == \A i \in 1..Len(idx) : LinePool[idx[i]].kind # "bad"

\* C10: on a well-formed source the parser returns the coordinates of the '*'
\* lines in file order, and the inferred size is the greatest live row + 1 by
\* the greatest live column + 1 (1x1 without live cells); '.' lines count for
\* nothing, also when their coordinates exceed every live coordinate.
C10_ParseWellFormed ==
    (pc = "returned" /\ args.path.exists /\ WellFormed(args.idx)) =>
        LET live == LiveCoordinates(args.idx)
        IN  /\ ret.exc = None
            /\ ret.live_cells = live
            /\ ret.rows = Greatest({0} \cup {live[i][1] : i \in 1..Len(live)}) + 1
            /\ ret.cols = Greatest({0} \cup {live[i][2] : i \in 1..Len(live)}) + 1

\* "(1,2) *" after a dead cell at (5,7): size 2x3, one live cell
C10_Witness ==
    /\ pc = "returned"
    /\ Len(args.idx) = 2
    /\ LinePool[args.idx[1]].kind = "dead" /\ LinePool[args.idx[1]].row = 5
    /\ LinePool[args.idx[2]].kind = "live" /\ LinePool[args.idx[2]].row = 1
    /\ LinePool[args.idx[2]].col = 2
    /\ ret.exc = None
    /\ ret.rows = 2 /\ ret.cols = 3
    /\ ret.live_cells = <<<<1, 2>>>>

\* ======================================================================
\* SpecBoard: a Board is constructed and then used through load_pattern,
\* clear and the drivers' board.grid = evolve_grid(board.grid, rule_name).
\* ======================================================================
\* the pattern files on disk, as indexes into LinePool
BoardFileIndexes ==
    {<<>>, <<3, 1>>, <<5>>, <<7>>, <<8>>, <<10>>,
     <<6, 9, 8>>,              \* the vertical blinker (0,1) (1,1) (2,1)
     <<5, 7, 8, 9>>,           \* (0,0) (1,2) (2,1) (1,1)
     <<5, 6, 5, 11, 5>>,       \* duplicates and a dead cell
     <<12, 5>>,                \* a dead cell far outside, then (0,0)
     <<6, 9, 7, 4>>,           \* (0,1) (1,1) (1,2)
     <<13>>, <<5, 14>>, <<9, 8, 15>>}

BoardPaths == {FileOf(idx) : idx \in BoardFileIndexes} \cup {MissingFile}

InitBoard ==
    /\ RULES_REGISTRY = StartupRegistry
    /\ last_registered = StartupRegistry
    /\ heap = EmptyHeap
    /\ grid = <<>>
    /\ board = NoBoard
    /\ pc = "new"
    /\ args = NoArgs
    /\ ret = NoRet
    /\ pre = [cells |-> <<>>, rows |-> 0, cols |-> 0, grid |-> <<>>]
    /\ gen = 0
    /\ out = NoOut
    /\ evolve_calls = 0

BoardPre == [cells |-> Cells(heap, board.grid), rows |-> board.rows,
             cols |-> board.cols, grid |-> board.grid]

\* board = Board(rows, cols)
BoardNew ==
    /\ ~board.constructed
    /\ \E rows \in -1..MaxRows, cols \in -1..MaxCols :
         \E res \in {Board_init(heap, rows, cols)} :
            /\ heap' = res.heap
            /\ board' = res.board
            /\ ret' = [value |-> None, exc |-> res.exc]
            /\ args' = [op |-> "Board", rows |-> rows, cols |-> cols]
    /\ pre' = BoardPre
    /\ pc' = "board"
    /\ UNCHANGED <<RULES_REGISTRY, last_registered, grid, gen, out, evolve_calls>>

\* board.load_pattern(path)
BoardLoadPattern ==
    /\ board.constructed
    /\ \E path \in BoardPaths :
         \E res \in {load_pattern(heap, board, path)} :
            /\ heap' = res.heap
            /\ ret' = [value |-> None, exc |-> res.exc]
            /\ args' = [op |-> "load_pattern", path |-> path]
    /\ pre' = BoardPre
    /\ UNCHANGED <<RULES_REGISTRY, last_registered, grid, board, pc, gen, out,
                   evolve_calls>>

\* board.clear()
BoardClear ==
    /\ board.constructed
    /\ heap' = clear(heap, board)
    /\ ret' = NoRet
    /\ args' = [op |-> "clear"]
    /\ pre' = BoardPre
    /\ UNCHANGED <<RULES_REGISTRY, last_registered, grid, board, pc, gen, out,
                   evolve_calls>>

\* board.grid = evolve_grid(board.grid, rule_name); on an exception the
\* assignment does not happen
BoardEvolve ==
    /\ board.constructed
    /\ \E rule_name \in RuleNames :
         \E res \in {evolve_grid(heap, board.grid, rule_name, RULES_REGISTRY)} :
            /\ IF res.exc = None
               THEN /\ board' = [board EXCEPT !.grid = res.value]
                    /\ heap' = Collect(res.heap, Range(res.value))
               ELSE UNCHANGED <<board, heap>>
            /\ RULES_REGISTRY' = res.registry
            /\ ret' = [value |-> None, exc |-> res.exc]
            /\ args' = [op |-> "evolve", rule_name |-> rule_name]
    /\ pre' = BoardPre
    /\ UNCHANGED <<last_registered, grid, pc, gen, out, evolve_calls>>

NextBoard == BoardNew \/ BoardLoadPattern \/ BoardClear \/ BoardEvolve

SpecBoard == InitBoard /\ [][NextBoard]_vars

\* ---------------------------------------------------------------- C9
AllDead(h, g, rows, cols) ==
    /\ Len(g) = rows
    /\ \A i \in 1..rows : h[g[i]] = [j \in 1..cols |-> 0]

\* C9: Board(rows, cols) fails with GridSizeError exactly when rows <= 0 or
\* cols <= 0, and otherwise yields a board of exactly rows rows of exactly
\* cols cells, all dead.
C9_BoardConstruction ==
    (args.op = "Board") =>
        /\ (ret.exc = "GridSizeError") <=> (args.rows <= 0 \/ args.cols <= 0)
        /\ ret.exc \in {None, "GridSizeError"}
        /\ (ret.exc # None) => ~board.constructed
        /\ (ret.exc = None) =>
             /\ board.constructed
             /\ board.rows = args.rows /\ board.cols = args.cols
             /\ AllDead(heap, board.grid, args.rows, args.cols)

C9_Witness ==
    /\ args.op = "Board" /\ args.rows = 2 /\ args.cols = 3
    /\ ret.exc = None
    /\ Cells(heap, board.grid) = <<<<0, 0, 0>>, <<0, 0, 0>>>>

HasLiveCell(m) == \E i \in 1..Len(m) : \E j \in 1..Len(m[i]) : m[i][j] = 1

C5_LoadSetsExactlyLiveCells ==
    (args.op = "load_pattern" /\ ret.exc = None) =>
        LET parsed == parse_pattern_file(args.path)
            live == Range(parsed.live_cells)
        IN  /\ parsed.rows <= board.rows /\ parsed.cols <= board.cols
            /\ \A p \in live : p[1] \in 0..(board.rows - 1) /\ p[2] \in 0..(board.cols - 1)
            /\ Len(board.grid) = board.rows
            /\ \A r \in 0..(board.rows - 1) :
                 /\ Len(heap[board.grid[r + 1]]) = board.cols
                 /\ \A c \in 0..(board.cols - 1) :
                      heap[board.grid[r + 1]][c + 1] = (IF <<r, c>> \in live THEN 1 ELSE 0)

\* (0,0) loaded, with its duplicates, over a grid holding other live cells
C5_Witness ==
    /\ args.op = "load_pattern" /\ ret.exc = None
    /\ Len(parse_pattern_file(args.path).live_cells) = 4
    /\ Cardinality(Range(parse_pattern_file(args.path).live_cells)) = 2
    /\ \E i \in 1..Len(pre.cells) : \E j \in 1..Len(pre.cells[i]) :
          pre.cells[i][j] = 1 /\ heap[board.grid[i]][j] = 0

\* ---------------------------------------------------------------- C12
BoardShape ==
    board.constructed =>
        /\ board.rows > 0 /\ board.cols > 0
        /\ Len(board.grid) = board.rows
        /\ \A i \in 1..Len(board.grid) :
             /\ Len(heap[board.grid[i]]) = board.cols
             /\ \A j \in 1..Len(heap[board.grid[i]]) : heap[board.grid[i]][j] \in 0..1

BoardKeepsSize ==
    /\ (~board.constructed /\ board'.constructed) =>
          board'.rows = args'.rows /\ board'.cols = args'.cols
    /\ board.constructed =>
          /\ board'.constructed
          /\ board'.rows = board.rows
          /\ board'.cols = board.cols

\* C12: a Board is never resized: through every sequence of load_pattern
\* (successful or failing), clear and board.grid = evolve_grid(board.grid, ...)
\* rows and cols keep their construction values, both positive, the grid has
\* exactly rows rows of exactly cols cells, and every cell is 0 or 1.
C12_BoardNeverResized == []BoardShape /\ [][BoardKeepsSize]_vars

\* a 2x3 board still 2x3 and alive after a generation
C12_Witness ==
    /\ board.constructed /\ board.rows = 2 /\ board.cols = 3
    /\ args.op = "evolve" /\ ret.exc = None
    /\ pre.cells = <<<<0, 1, 0>>, <<0, 1, 1>>>>
    /\ Cells(heap, board.grid) = <<<<0, 1, 1>>, <<0, 1, 1>>>>

\* ======================================================================
\* SpecEvolve: evolve_grid called on an arbitrary binary grid, followed by
\* writes through the returned grid.
\* ======================================================================
BinaryRows(cols) == [1..cols -> 0..1]

\* every binary grid of at most MaxCells cells, the empty list included
InputGrids ==
    UNION {[1..d[1] -> BinaryRows(d[2])] :
              d \in {e \in (1..MaxCells) \X (0..MaxCells) : e[1] * e[2] <= MaxCells}}
      \cup {<<>>}

\* registries in which the built-in rule has not been overridden
BuiltinRegistries ==
    {StartupRegistry, register_rule(StartupRegistry, "highlife", highlife_rule)}

InitEvolve ==
    /\ \E m \in InputGrids :
          /\ heap = [a \in 1..Len(m) |-> m[a]]
          /\ grid = [a \in 1..Len(m) |-> a]
          /\ pre = m
    /\ RULES_REGISTRY \in BuiltinRegistries
    /\ last_registered = RULES_REGISTRY
    /\ board = NoBoard
    /\ pc = "call"
    /\ args = NoArgs
    /\ ret = NoRet
    /\ gen = 0
    /\ out = NoOut
    /\ evolve_calls = 0

\* new_grid = evolve_grid(grid, rule_name)
EvolveCall ==
    /\ pc = "call"
    /\ \E rule_name \in RuleNames :
          \E res \in {evolve_grid(heap, grid, rule_name, RULES_REGISTRY)} :
              /\ heap' = res.heap
              /\ RULES_REGISTRY' = res.registry
              /\ ret' = [value |-> res.value, exc |-> res.exc]
              /\ args' = [op |-> "evolve_grid", rule_name |-> rule_name]
    /\ pre' = Cells(heap, grid)
    /\ pc' = "returned"
    /\ UNCHANGED <<last_registered, grid, board, gen, out, evolve_calls>>

\* the caller keeps the result as a board's grid and clears it in place
ClearResult ==
    /\ pc = "returned"
    /\ ret.exc = None
    /\ heap' = ClearLoop(heap, ret.value, Len(grid),
                         IF Len(grid) > 0 THEN Len(heap[grid[1]]) ELSE 0, 0)
    /\ pc' = "written"
    /\ UNCHANGED <<RULES_REGISTRY, last_registered, grid, board, args, ret, pre,
                   gen, out, evolve_calls>>

NextEvolve == EvolveCall \/ ClearResult

SpecEvolve == InitEvolve /\ [][NextEvolve]_vars

\* ---------------------------------------------------------------- C1
\* the cells of matrix m next to (r, c), inside the matrix, that are alive
LiveNeighbours(m, r, c) ==
    {p \in (0..(Len(m) - 1)) \X (0..(Len(m[1]) - 1)) :
        /\ p # <<r, c>>
        /\ p[1] - r \in {-1, 0, 1}
        /\ p[2] - c \in {-1, 0, 1}
        /\ m[p[1] + 1][p[2] + 1] = 1}

ConwayNext(m, r, c) ==
    LET n == Cardinality(LiveNeighbours(m, r, c))
    IN  IF \/ (m[r + 1][c + 1] = 1 /\ n \in {2, 3})
           \/ (m[r + 1][c + 1] = 0 /\ n = 3)
        THEN 1 ELSE 0

\* C1: evolve_grid(grid, "conway") returns, for every binary grid, the grid
\* whose cell (r, c) is alive exactly when the input cell is alive with 2 or 3
\* live in-grid Moore neighbours or dead with exactly 3, the neighbours being
\* counted on the input grid without wraparound; every count is in 0..8.
C1_ConwayGeneration ==
    (pc = "returned" /\ args.rule_name = "conway") =>
        /\ ret.exc = None
        /\ Len(ret.value) = Len(pre)
        /\ \A r \in 0..(Len(pre) - 1) :
             /\ Len(heap[ret.value[r + 1]]) = Len(pre[r + 1])
             /\ \A c \in 0..(Len(pre[r + 1]) - 1) :
                  /\ heap[ret.value[r + 1]][c + 1] = ConwayNext(pre, r, c)
                  /\ count_live_neighbors(heap, grid, r, c) \in 0..8
                  /\ count_live_neighbors(heap, grid, r, c)
                        = Cardinality(LiveNeighbours(pre, r, c))

\* the full 3x3 grid: the centre has 8 neighbours and dies, the corners have 3
C1_Witness ==
    /\ pc = "returned"
    /\ args.rule_name = "conway"
    /\ pre = <<<<1, 1, 1>>, <<1, 1, 1>>, <<1, 1, 1>>>>
    /\ Cells(heap, ret.value) = <<<<1, 0, 1>>, <<0, 0, 0>>, <<1, 0, 1>>>>
    /\ count_live_neighbors(heap, grid, 1, 1) = 8

\* ---------------------------------------------------------------- C6
\* C6: evolve_grid leaves every cell of its argument as it was, returns a grid
\* with the argument's number of rows and columns, and the returned grid
\* shares no row list with the argument, so that later writes through the
\* result leave the argument's cells unchanged.
C6_EvolvePure ==
    (pc \in {"returned", "written"}) =>
        /\ Cells(heap, grid) = pre
        /\ ret.exc = None =>
             /\ Len(ret.value) = Len(grid)
             /\ \A i \in 1..Len(grid) : Len(heap[ret.value[i]]) = Len(pre[i])
             /\ Range(ret.value) \cap Range(grid) = {}
             /\ Cardinality(Range(ret.value)) = Len(ret.value)

C6_Witness ==
    /\ pc = "written"
    /\ Len(grid) = 3
    /\ Cells(heap, grid) = <<<<0, 1, 0>>, <<0, 1, 0>>, <<0, 1, 0>>>>
    /\ Cells(heap, ret.value) = <<<<0, 0, 0>>, <<0, 0, 0>>, <<0, 0, 0>>>>

====
